---- MODULE Spec2Model ----
(***************************************************************************)
(* A model of ponderosa.py: the CmdTree of argparse subparsers, the        *)
(* registration of subcommand paths, the breadth-first lookups, the        *)
(* deferred "common" argument groups and the chain of handler wrappers     *)
(* installed by ArgGroup.apply.                                            *)
(*                                                                         *)
(* A parser is a node id 1..Len(prog); the root parser is node 1.  The     *)
(* argparse objects are modelled by what ponderosa reads and writes:       *)
(*   prog[p]     the parser's prog, as the sequence of names argparse      *)
(*               joins with blanks ("prog a b" is <<"prog","a","b">>);     *)
(*   choices[p]  the items of the _SubParsersAction.choices dict of p, in  *)
(*               insertion order, aliases included (empty when p has no    *)
(*               subparsers action);                                       *)
(*   func[p]     parser._defaults['func'], the handler of p.               *)
(*                                                                         *)
(* registered, applied and last are history: the paths registered with the *)
(* parsers returned, the _apply_group calls in order, and what the last    *)
(* operation was given and produced.                                       *)
(***************************************************************************)
EXTENDS Integers, Sequences, FiniteSets, TLC

VARIABLES prog, choices, func, common_adders, postprocessors, handles,
          namespace, registered, applied, nparse, last

vars == <<prog, choices, func, common_adders, postprocessors, handles,
          namespace, registered, applied, nparse, last>>

----------------------------------------------------------------------------
(* Bounds of the model.                                                    *)
MaxNodes == 4
MaxPathLen == 2
MaxGroups == 2
MaxPost == 1
MaxCommon == 1
MaxParse == 1

(* The inputs the operations are called with.                              *)
Names == {"a", "b"}
AliasChoices == {<<>>, <<"b">>}
UserFuncs == {"h1", "h2"}
Paths == UNION {[1..k -> Names] : k \in 1..MaxPathLen}
(* The paths registered when argument groups are exercised.                *)
ArgPaths == {<<"a">>, <<"b", "a">>}

(* Python's None: as a parser, as a handler's return value, as a name.     *)
None == -1
NoName == "None"
(* func=None of _add_child.                                                *)
NoFunc == "None"
(* sys.argv[0], the prog of the root ArgumentParser.                        *)
RootProg == "prog"
(* The root parser.                                                        *)
Root == 1

(* What a user handler returns: h1 an exit code, h2 nothing.               *)
ReturnOf(f) == IF f = "h1" THEN 3 ELSE None

----------------------------------------------------------------------------
(* The tree lookups.                                                       *)

_get_subparsers(parser) == choices[parser]

RECURSIVE find_bfs(_, _)
find_bfs(subparser_deque, cmd_name) ==
    IF subparser_deque = <<>> THEN None
    ELSE LET item == Head(subparser_deque) IN
         IF item.key = cmd_name THEN item.parser
         ELSE find_bfs(Tail(subparser_deque) \o _get_subparsers(item.parser),
                       cmd_name)

_find_cmd(cmd_name) ==
    IF <<cmd_name>> = prog[Root] THEN Root
    ELSE find_bfs(_get_subparsers(Root), cmd_name)

RECURSIVE gather_bfs(_, _)
gather_bfs(parser_q, found) ==
    IF parser_q = <<>> THEN found
    ELSE LET root == Head(parser_q).parser IN
         gather_bfs(Tail(parser_q) \o _get_subparsers(root),
                    Append(found, root))

gather_subtree(root_name) ==
    LET root == IF root_name = NoName THEN Root ELSE _find_cmd(root_name) IN
    IF root = None THEN <<>>
    ELSE gather_bfs(_get_subparsers(root), <<root>>)

(* The inner for loop of _find_cmd_chain: the first child of parser whose  *)
(* key is next_name.                                                       *)
RECURSIVE child_scan(_, _)
child_scan(items, next_name) ==
    IF items = <<>> THEN None
    ELSE IF Head(items).key = next_name THEN Head(items).parser
    ELSE child_scan(Tail(items), next_name)

RECURSIVE chain_walk(_, _, _)
chain_walk(root_parser, rest, chain) ==
    IF rest = <<>> THEN chain
    ELSE LET child_parser == child_scan(_get_subparsers(root_parser), Head(rest)) IN
         IF child_parser = None THEN chain
         ELSE chain_walk(child_parser, Tail(rest), Append(chain, child_parser))

_find_cmd_chain(cmd_fullname) ==
    LET root_parser == _find_cmd(cmd_fullname[1]) IN
    IF root_parser = None THEN [k \in 1..Len(cmd_fullname) |-> None]
    ELSE IF Len(cmd_fullname) = 1 THEN <<root_parser>>
    ELSE LET chain == chain_walk(root_parser, Tail(cmd_fullname), <<root_parser>>) IN
         chain \o [k \in 1..(Len(cmd_fullname) - Len(chain)) |-> None]

----------------------------------------------------------------------------
(* Registration.  A registration in progress is a record st of the tree    *)
(* (prog, choices, func), the chain, the outcome res and the returned      *)
(* parser ret.                                                             *)

Keys(items) == {items[k].key : k \in 1..Len(items)}

(* dict[key] = parser: a new key goes last, an existing key keeps its      *)
(* place.                                                                  *)
dict_set(items, key, parser) ==
    IF key \in Keys(items)
    THEN [k \in 1..Len(items) |->
             IF items[k].key = key THEN [key |-> key, parser |-> parser]
             ELSE items[k]]
    ELSE Append(items, [key |-> key, parser |-> parser])

RECURSIVE dict_set_all(_, _, _)
dict_set_all(items, keys, parser) ==
    IF keys = <<>> THEN items
    ELSE dict_set_all(dict_set(items, Head(keys), parser), Tail(keys), parser)

(* _SubParsersAction.add_parser refuses a name or an alias that is already *)
(* a key of the parent's choices.                                          *)
add_parser_conflict(items, child_name, aliases) ==
    \/ child_name \in Keys(items)
    \/ \E k \in 1..Len(aliases) : aliases[k] \in Keys(items)

(* _add_child on the tree of st; the new parser is node Len(st.prog) + 1.  *)
_add_child(st, root, child_name, fn, aliases) ==
    LET child == Len(st.prog) + 1 IN
    [st EXCEPT
       !.prog = Append(st.prog, st.prog[root] \o <<child_name>>),
       !.choices = Append([st.choices EXCEPT ![root] =
                              dict_set_all(st.choices[root],
                                           <<child_name>> \o aliases, child)],
                          <<>>),
       !.func = Append(st.func,
                       [base |-> IF fn = NoFunc THEN "print_help" ELSE fn,
                        wraps |-> <<>>])]

(* The test that decides that segment j is the leaf of the path.           *)
is_leaf(cmd_fullname, j) == cmd_fullname[j] = cmd_fullname[Len(cmd_fullname)]

(* The loop of register_cmd over pairwise(range(len(chain))), from the     *)
(* pair (j-1, j) on.                                                       *)
RECURSIVE register_loop(_, _, _, _, _)
register_loop(st, cmd_fullname, j, cmd_func, aliases) ==
    IF j > Len(st.chain) THEN [st EXCEPT !.res = "not_registered"]
    ELSE IF st.chain[j] = None THEN
        IF st.chain[j-1] = None THEN [st EXCEPT !.res = "bad_chain"]
        ELSE IF is_leaf(cmd_fullname, j) THEN
            IF add_parser_conflict(st.choices[st.chain[j-1]],
                                   cmd_fullname[Len(cmd_fullname)], aliases)
            THEN [st EXCEPT !.res = "conflict"]
            ELSE [_add_child(st, st.chain[j-1], cmd_fullname[Len(cmd_fullname)],
                             cmd_func, aliases)
                    EXCEPT !.res = "ok", !.ret = Len(st.prog) + 1]
        ELSE
            IF add_parser_conflict(st.choices[st.chain[j-1]], cmd_fullname[j], <<>>)
            THEN [st EXCEPT !.res = "conflict"]
            ELSE register_loop(
                    [_add_child(st, st.chain[j-1], cmd_fullname[j], NoFunc, <<>>)
                       EXCEPT !.chain[j] = Len(st.prog) + 1],
                    cmd_fullname, j + 1, cmd_func, aliases)
    ELSE register_loop(st, cmd_fullname, j + 1, cmd_func, aliases)

register_cmd(cmd_fullname, cmd_func, aliases) ==
    LET chain == _find_cmd_chain(cmd_fullname)
        st0 == [prog |-> prog, choices |-> choices, func |-> func,
                chain |-> chain, res |-> "none", ret |-> None]
    IN
    IF \A k \in 1..Len(chain) : chain[k] # None
    THEN [st0 EXCEPT !.res = "duplicate"]
    ELSE IF chain[1] = None
    THEN register_loop([st0 EXCEPT !.chain = <<Root>> \o chain],
                       <<RootProg>> \o cmd_fullname, 2, cmd_func, aliases)
    ELSE register_loop(st0, cmd_fullname, 2, cmd_func, aliases)

----------------------------------------------------------------------------
(* Handlers.  A handler is the user function or print-help lambda `base`   *)
(* inside the wrappers of postprocess_args, innermost first.  A wrapper    *)
(* closes over the post-processor list of its group (grp); snap is what    *)
(* that list held when the wrapper was built.                              *)

(* A wrapper that iterates over a copy of the list taken when it was built. *)
wrapper_postprocessors_copied(w) == w.snap

(* The list a wrapper iterates over when it is invoked.                    *)
wrapper_postprocessors(w) == postprocessors[w.grp]

(* self.postprocessors of a group: [] from ArgGroup.__init__ on.           *)
group_postprocessors(group) ==
    IF group \in 1..Len(postprocessors) THEN postprocessors[group] ELSE <<>>

(* A wrapping that slips the new wrapper under the ones already there.     *)
postprocess_args_innermost(f, group) ==
    [f EXCEPT !.wraps = <<[grp |-> group,
                           snap |-> group_postprocessors(group)]>> \o f.wraps]

(* postprocess_args(func, group.postprocessors)                            *)
postprocess_args(f, group) ==
    [f EXCEPT !.wraps = Append(f.wraps, [grp |-> group,
                                         snap |-> group_postprocessors(group)])]

(* What a wrapper hands back to its caller after func(args).               *)
wrapper_result(inner_result) == None

(* Calling a handler: the functions called, in order, and the value that   *)
(* comes back.                                                             *)
RECURSIVE call_func(_)
call_func(f) ==
    IF f.wraps = <<>>
    THEN [trace |-> <<[kind |-> "func", name |-> f.base, grp |-> 0, idx |-> 0]>>,
          ret |-> ReturnOf(f.base)]
    ELSE LET w == f.wraps[Len(f.wraps)]
             inner == call_func([f EXCEPT !.wraps = SubSeq(f.wraps, 1, Len(f.wraps) - 1)])
         IN [trace |-> wrapper_postprocessors(w) \o inner.trace,
             ret |-> wrapper_result(inner.ret)]

(* _apply_group(parser) of group on the handlers fn: the adder is called   *)
(* on the parser and the parser's handler is rewrapped.  Group 0 is a      *)
(* plain adder function that only declares arguments.                      *)
_apply_group(fn, group, parser) ==
    IF group = 0 THEN fn
    ELSE [fn EXCEPT ![parser] = postprocess_args(fn[parser], group)]

(* The adder calls of _apply_common_args, in order: entry e of             *)
(* common_adders on every parser of gather_subtree(root of e).             *)
RECURSIVE common_calls(_)
common_calls(e) ==
    IF e > Len(common_adders) THEN <<>>
    ELSE LET sub == gather_subtree(common_adders[e].root) IN
         [k \in 1..Len(sub) |-> [entry |-> e, grp |-> common_adders[e].grp,
                                 parser |-> sub[k]]]
         \o common_calls(e + 1)

RECURSIVE apply_calls(_, _)
apply_calls(fn, calls) ==
    IF calls = <<>> THEN fn
    ELSE apply_calls(_apply_group(fn, Head(calls).grp, Head(calls).parser),
                     Tail(calls))

(* run: the exit code for what the handler returned.                       *)
retcode_of(ret) == IF ret = None THEN 0 ELSE ret

----------------------------------------------------------------------------
(* The record of the last operation.                                       *)
NoHandler == [base |-> NoFunc, wraps |-> <<>>]

(* No Namespace yet; a Namespace carries the handler of the parser that    *)
(* the command line selected.                                              *)
NoNamespace == [func |-> NoHandler, parser |-> None]

(* The _apply_group calls among the adder calls.                           *)
group_calls(calls) ==
    SelectSeq([k \in 1..Len(calls) |-> [grp |-> calls[k].grp,
                                        parser |-> calls[k].parser]],
              LAMBDA c : c.grp # 0)

NoOp == [op |-> "init", path |-> <<>>, h |-> NoFunc, res |-> "none",
         ret |-> None, chain |-> <<>>,
         pre |-> [prog |-> <<>>, choices |-> <<>>, func |-> <<>>],
         prevreg |-> <<>>, target |-> None, common |-> FALSE, grp |-> 0,
         calls |-> <<>>, trace |-> <<>>, called |-> NoHandler, retcode |-> None]

(* CmdTree(): a root parser with the default print-help handler and an     *)
(* empty subparsers action; tree.root is the handle of the root.           *)
Init ==
    /\ prog = << <<RootProg>> >>
    /\ choices = << <<>> >>
    /\ func = << [base |-> "print_help", wraps |-> <<>>] >>
    /\ common_adders = <<>>
    /\ postprocessors = <<>>
    /\ handles = {[parser |-> Root, name |-> RootProg]}
    /\ namespace = NoNamespace
    /\ registered = {}
    /\ applied = <<>>
    /\ nparse = 0
    /\ last = NoOp

(* CmdTree.register: the decorator tree.register(path..., aliases)(func).  *)
Register(cmd_fullname, cmd_func, aliases) ==
    LET r == register_cmd(cmd_fullname, cmd_func, aliases) IN
    /\ Len(r.prog) <= MaxNodes
    /\ prog' = r.prog
    /\ choices' = r.choices
    /\ func' = r.func
    /\ handles' = IF r.res = "ok"
                  THEN handles \cup {[parser |-> r.ret,
                                      name |-> cmd_fullname[Len(cmd_fullname)]]}
                  ELSE handles
    /\ registered' = IF r.res = "ok"
                     THEN registered \cup {[path |-> cmd_fullname, parser |-> r.ret]}
                     ELSE registered
    /\ last' = [NoOp EXCEPT !.op = "register", !.path = cmd_fullname,
                  !.h = cmd_func, !.res = r.res, !.ret = r.ret,
                  !.chain = _find_cmd_chain(cmd_fullname),
                  !.pre = [prog |-> prog, choices |-> choices, func |-> func],
                  !.prevreg = IF last.op = "register" /\ last.res = "ok"
                              THEN last.path ELSE <<>>]
    /\ UNCHANGED <<common_adders, postprocessors, namespace, applied, nparse>>

(* SubCmd.args(common=common)(arg_adder) on the handle s: a new ArgGroup   *)
(* is built and group.apply(common)(s) is called.  The target of a         *)
(* common_adders entry records the parser of the handle it came from.      *)
SubCmdArgs(s, common) ==
    LET group == Len(postprocessors) + 1 IN
    /\ group <= MaxGroups
    /\ postprocessors' = Append(postprocessors, <<>>)
    /\ IF common
       THEN /\ Len(common_adders) < MaxCommon
            /\ common_adders' = Append(common_adders,
                   [root |-> s.name, grp |-> group, target |-> s.parser])
            /\ func' = func
            /\ applied' = applied
       ELSE /\ func' = _apply_group(func, group, s.parser)
            /\ applied' = Append(applied, [grp |-> group, parser |-> s.parser])
            /\ common_adders' = common_adders
    /\ last' = [NoOp EXCEPT !.op = "args", !.target = s.parser, !.common = common,
                  !.grp = group,
                  !.pre = [prog |-> prog, choices |-> choices, func |-> func],
                  !.calls = IF common THEN <<>>
                            ELSE <<[entry |-> 0, grp |-> group, parser |-> s.parser]>>]
    /\ UNCHANGED <<prog, choices, handles, namespace, registered, nparse>>

(* ArgGroup.postprocessor(func) on group: a new function is appended.      *)
Postprocessor(group) ==
    /\ Len(postprocessors[group]) < MaxPost
    /\ postprocessors' = [postprocessors EXCEPT ![group] =
           Append(@, [kind |-> "post", name |-> "post", grp |-> group,
                      idx |-> Len(@) + 1])]
    /\ last' = [NoOp EXCEPT !.op = "postprocessor", !.grp = group]
    /\ UNCHANGED <<prog, choices, func, common_adders, handles, namespace,
                   registered, applied, nparse>>

(* CmdTree.register_common_args(cmd_root, arg_adder) with a plain adder.   *)
RegisterCommonArgs(cmd_root) ==
    /\ Len(common_adders) < MaxCommon
    /\ common_adders' = Append(common_adders,
           [root |-> cmd_root, grp |-> 0, target |-> None])
    /\ last' = [NoOp EXCEPT !.op = "register_common_args",
                  !.pre = [prog |-> prog, choices |-> choices, func |-> func]]
    /\ UNCHANGED <<prog, choices, func, postprocessors, handles, namespace,
                   registered, applied, nparse>>

(* CmdTree.parse_args(argv) for an argv that selects parser: the common    *)
(* groups are applied, then the Namespace carries the parser's handler.    *)
ParseArgs(parser) ==
    LET calls == common_calls(1)
        fn == apply_calls(func, calls) IN
    /\ nparse < MaxParse
    /\ nparse' = nparse + 1
    /\ func' = fn
    /\ namespace' = [func |-> fn[parser], parser |-> parser]
    /\ applied' = applied \o group_calls(calls)
    /\ last' = [NoOp EXCEPT !.op = "parse_args", !.target = parser,
                  !.pre = [prog |-> prog, choices |-> choices, func |-> func],
                  !.calls = calls]
    /\ UNCHANGED <<prog, choices, common_adders, postprocessors, handles,
                   registered>>

(* CmdTree.run(args) with the Namespace of an earlier parse_args.          *)
RunArgs ==
    LET r == call_func(namespace.func) IN
    /\ namespace # NoNamespace
    /\ last' = [NoOp EXCEPT !.op = "run_args", !.target = namespace.parser,
                  !.called = namespace.func,
                  !.trace = r.trace, !.retcode = retcode_of(r.ret)]
    /\ UNCHANGED <<prog, choices, func, common_adders, postprocessors, handles,
                   namespace, registered, applied, nparse>>

(* CmdTree.run() for an argv that selects parser: parse_args, then the     *)
(* handler of the Namespace is called.                                     *)
RunNone(parser) ==
    LET calls == common_calls(1)
        fn == apply_calls(func, calls)
        r == call_func(fn[parser]) IN
    /\ nparse < MaxParse
    /\ nparse' = nparse + 1
    /\ func' = fn
    /\ applied' = applied \o group_calls(calls)
    /\ last' = [NoOp EXCEPT !.op = "run", !.target = parser,
                  !.pre = [prog |-> prog, choices |-> choices, func |-> func],
                  !.calls = calls, !.called = fn[parser],
                  !.trace = r.trace, !.retcode = retcode_of(r.ret)]
    /\ UNCHANGED <<prog, choices, common_adders, postprocessors, handles,
                   namespace, registered>>

Parsers == 1..Len(prog)

(* The registrations alone.                                                *)
NextTree ==
    \/ \E p \in Paths, f \in UserFuncs, al \in AliasChoices : Register(p, f, al)

SpecTree == Init /\ [][NextTree]_vars

(* One subcommand, the argument groups applied to it and to the root at   *)
(* once, their post-processors and the runs of the handlers.               *)
Next ==
    \/ \E f \in UserFuncs : Register(<<"a">>, f, <<>>)
    \/ \E s \in handles : SubCmdArgs(s, FALSE)
    \/ \E g \in 1..Len(postprocessors) : Postprocessor(g)
    \/ \E p \in Parsers : ParseArgs(p)
    \/ RunArgs
    \/ \E p \in Parsers : RunNone(p)

Spec == Init /\ [][Next]_vars

(* Subcommands that share a name, aliases, and the argument groups applied *)
(* at once or deferred to a subtree.                                       *)
NextCommon ==
    \/ \E p \in ArgPaths, al \in AliasChoices : Register(p, "h1", al)
    \/ \E s \in handles, common \in BOOLEAN : SubCmdArgs(s, common)
    \/ \E r \in Names \cup {NoName} : RegisterCommonArgs(r)
    \/ \E p \in Parsers : ParseArgs(p)

SpecCommon == Init /\ [][NextCommon]_vars

----------------------------------------------------------------------------
(* Notions the properties are stated with.                                 *)

(* The tree as the lookups see it.                                         *)
Tree == [prog |-> prog, choices |-> choices, func |-> func]

Depth(p) == Len(prog[p]) - 1

IsPrefix(s, t) == Len(s) <= Len(t) /\ SubSeq(t, 1, Len(s)) = s

(* The parsers of the subtree rooted at r, r included.                     *)
Subtree(r) == {d \in Parsers : IsPrefix(prog[r], prog[d])}

IsParent(r, d) == Len(prog[d]) = Len(prog[r]) + 1 /\ IsPrefix(prog[r], prog[d])

Occurrences(seq, x) == Cardinality({k \in 1..Len(seq) : seq[k] = x})

(* The parsers met when descending from the root, one child per segment.   *)
RECURSIVE Descend(_, _)
Descend(parser, path) ==
    IF path = <<>> \/ parser = None THEN <<>>
    ELSE LET c == child_scan(choices[parser], Head(path)) IN
         <<c>> \o Descend(c, Tail(path))

LastOf(seq) == seq[Len(seq)]

Parsed == last.op \in {"parse_args", "run"}
Ran == last.op \in {"run", "run_args"}

(* The place of the handler itself in the trace of a run.                  *)
FuncAt == CHOOSE k \in 1..Len(last.trace) : last.trace[k].kind = "func"

----------------------------------------------------------------------------
(* C1: when register_cmd(p, h) has succeeded, an immediately following     *)
(* register_cmd(p, h') raises the duplicate-registration error and leaves  *)
(* the tree as it was after the first call.                                *)
C1_SecondRegistrationIsDuplicate ==
    (last.op = "register" /\ last.prevreg = last.path)
        => (last.res = "duplicate" /\ last.pre = Tree)

(* C2: after a successful register_cmd(path, h), descending from the root  *)
(* one child per segment of path reaches a node for every segment, the     *)
(* last at depth len(path) and being the returned node with handler h; the *)
(* other nodes created by the call print help, and the nodes that existed  *)
(* before keep their handlers.                                             *)
C2_RegisterWalksFromRoot ==
    (last.op = "register" /\ last.res = "ok") =>
        LET walk == Descend(Root, last.path) IN
        /\ Len(walk) = Len(last.path)
        /\ \A k \in 1..Len(walk) : walk[k] # None /\ Depth(walk[k]) = k
        /\ LastOf(walk) = last.ret
        /\ func[last.ret] = [base |-> last.h, wraps |-> <<>>]
        /\ \A q \in Parsers :
              IF q <= Len(last.pre.prog) THEN func[q] = last.pre.func[q]
              ELSE q # last.ret => func[q] = [base |-> "print_help", wraps |-> <<>>]

(* C3: for every path p registered, in every later state, _find_cmd(p[-1]) *)
(* and the last entry of _find_cmd_chain(p) are the node register returned *)
(* for p.                                                                  *)
C3_FindAgreesWithChain ==
    \A r \in registered :
        /\ _find_cmd(LastOf(r.path)) = r.parser
        /\ LastOf(_find_cmd_chain(r.path)) = r.parser

(* C7: gather_subtree(None) starts with the root, holds every parser       *)
(* exactly once, no parser before its parent, in non-decreasing depth; and *)
(* gather_subtree of a name that is not in the tree is empty.              *)
C7_GatherIsBreadthFirst ==
    LET found == gather_subtree(NoName) IN
    /\ found[1] = Root
    /\ \A q \in Parsers : Occurrences(found, q) = 1
    /\ \A i, j \in 1..Len(found) :
          /\ IsParent(found[j], found[i]) => j < i
          /\ i < j => Depth(found[i]) <= Depth(found[j])
    /\ \A nm \in Names : _find_cmd(nm) = None => gather_subtree(nm) = <<>>

(* C9: a register_cmd call either raises the duplicate-registration error, *)
(* _find_cmd_chain having resolved every segment, or creates at least one  *)
(* node and returns the node created for the last segment of the path; the *)
(* broken-chain and the not-registered errors are never raised.            *)
C9_RegisterOutcomes ==
    last.op = "register" =>
        \/ /\ last.res = "duplicate"
           /\ \A k \in 1..Len(last.chain) : last.chain[k] # None
        \/ /\ last.res = "ok"
           /\ Len(prog) > Len(last.pre.prog)
           /\ last.ret > Len(last.pre.prog)
           /\ LastOf(_find_cmd_chain(last.path)) = last.ret

(* The two internal errors of register_cmd alone.                          *)
NoInternalError == last.res \notin {"bad_chain", "not_registered"}

(* C5: run returns r when the handler registered on the selected node      *)
(* returns the integer r, and 0 when it returns nothing, whatever argument *)
(* groups were applied to the node.                                        *)
C5_RunReturnsHandlerCode ==
    Ran => last.retcode = retcode_of(ReturnOf(last.called.base))

(* C6: one _apply_common_args() call invokes the adder of every entry      *)
(* (R, adder) exactly once on every node of the subtree rooted at R and on *)
(* no other node, entries in registration order and the nodes of an entry  *)
(* in breadth-first order.                                                 *)
C6_CommonAdderOncePerNode ==
    Parsed =>
        /\ \A e \in 1..Len(common_adders) :
              LET R == IF common_adders[e].root = NoName THEN Root
                       ELSE _find_cmd(common_adders[e].root)
                  call(q) == [entry |-> e, grp |-> common_adders[e].grp, parser |-> q]
              IN \A q \in Parsers :
                    Occurrences(last.calls, call(q)) =
                        IF R # None /\ q \in Subtree(R) THEN 1 ELSE 0
        /\ \A i, j \in 1..Len(last.calls) : i < j =>
              /\ last.calls[i].entry <= last.calls[j].entry
              /\ last.calls[i].entry = last.calls[j].entry =>
                    Depth(last.calls[i].parser) <= Depth(last.calls[j].parser)

(* C8: s.args(common=False) applies the group at once to the node of s and *)
(* to no other; s.args(common=True) changes no node when called and, at    *)
(* the next _apply_common_args(), applies the group to exactly the nodes   *)
(* of the subtree rooted at the node of s.                                 *)
C8_ArgsTargetsOwnNode ==
    /\ (last.op = "args" /\ ~last.common) =>
          /\ last.calls = <<[entry |-> 0, grp |-> last.grp, parser |-> last.target]>>
          /\ func[last.target] # last.pre.func[last.target]
          /\ \A q \in Parsers \ {last.target} : func[q] = last.pre.func[q]
    /\ (last.op = "args" /\ last.common) => (Tree = last.pre /\ last.calls = <<>>)
    /\ Parsed =>
          \A e \in 1..Len(common_adders) : common_adders[e].target # None =>
              {last.calls[k].parser : k \in {i \in 1..Len(last.calls) :
                                                last.calls[i].entry = e}}
                  = Subtree(common_adders[e].target)

(* The groups applied to parser p, in the order of the applications.       *)
RECURSIVE GroupsOf(_, _)
GroupsOf(apps, p) ==
    IF apps = <<>> THEN <<>>
    ELSE (IF Head(apps).parser = p THEN <<Head(apps).grp>> ELSE <<>>)
         \o GroupsOf(Tail(apps), p)

AppliedTo(p) == GroupsOf(applied, p)

(* The handler that was run is the current handler of its node.            *)
RanCurrent == Ran /\ last.called = func[last.target]

(* The case of C4: the handler that was run is that of a node to which     *)
(* exactly two groups were applied, A first and B second, each with one    *)
(* post-processor.                                                         *)
TwoGroupsRan ==
    /\ RanCurrent
    /\ Len(AppliedTo(last.target)) = 2
    /\ AppliedTo(last.target)[1] # AppliedTo(last.target)[2]
    /\ \A k \in 1..2 : Len(postprocessors[AppliedTo(last.target)[k]]) = 1

PostOf(k) == postprocessors[AppliedTo(last.target)[k]][1]

HandlerEvent == [kind |-> "func", name |-> last.called.base, grp |-> 0, idx |-> 0]

(* C4: groups A then B applied to one node: running the handler calls the  *)
(* post-processor of A, then that of B, then the original handler, each    *)
(* once.                                                                   *)
C4_FirstAppliedRunsFirst ==
    TwoGroupsRan => last.trace = <<PostOf(1), PostOf(2), HandlerEvent>>

(* C4, amended: groups A then B applied to one node: running the handler   *)
(* calls the post-processor of B, then that of A, then the original        *)
(* handler, each once.                                                     *)
C4_LastAppliedRunsFirst ==
    TwoGroupsRan => last.trace = <<PostOf(2), PostOf(1), HandlerEvent>>

C4_Witness == TwoGroupsRan /\ last.called.base \in UserFuncs

(* The wrappers of the handler that was run whose group was applied to it  *)
(* once and got a post-processor after the wrapper was built.              *)
LateWrappers ==
    {k \in 1..Len(last.called.wraps) :
        /\ \A m \in 1..Len(last.called.wraps) :
              last.called.wraps[m].grp = last.called.wraps[k].grp => m = k
        /\ Len(last.called.wraps[k].snap) <
              Len(postprocessors[last.called.wraps[k].grp])}

(* C10: a post-processor appended to a group after the group was applied   *)
(* to a node runs exactly once, before the original handler, whenever the  *)
(* handler of that node is invoked afterwards.                             *)
C10_LatePostprocessorRuns ==
    Ran => \A k \in LateWrappers :
              LET w == last.called.wraps[k]
                  posts == postprocessors[w.grp] IN
              \A m \in (Len(w.snap) + 1)..Len(posts) :
                  /\ Occurrences(last.trace, posts[m]) = 1
                  /\ \E t \in 1..Len(last.trace) :
                        last.trace[t] = posts[m] /\ t < FuncAt

C10_Witness == Ran /\ LateWrappers # {} /\ last.called.base \in UserFuncs

====
